---- MODULE Spec2Model ----
(***************************************************************************)
(* Model of server.js: an express application that ingests telemetry       *)
(* (users, consent, GPS locations, call logs, IP geolocation) into a       *)
(* Supabase store and serves an aggregated admin listing.                  *)
(*                                                                         *)
(* Every handler is an async function.  It runs synchronously up to its    *)
(* first await (validation, building the payload, reading the clock), is   *)
(* suspended while the store or the geolocation provider works, and        *)
(* finishes (sends its response) when that call settles.  The model has    *)
(* one action for the synchronous prefix of each handler and one for each  *)
(* settling of an awaited call; requests suspended at an await are kept in *)
(* pending and may settle in any order.                                    *)
(***************************************************************************)
EXTENDS Integers, Sequences, FiniteSets, TLC

(***************************************************************************)
(* Bounds of the model.                                                    *)
(***************************************************************************)
MaxReq == 2        \* requests issued in one behaviour
MaxInflight == 2   \* requests suspended at an await at the same time
MaxClock == 2      \* largest reading of the server clock
MaxCalls == 2      \* longest calls[] array of a /report-calls body
MaxLen == 3        \* longest x-forwarded-for header value, in characters

(***************************************************************************)
(* JavaScript values as they arrive in a parsed JSON body.  A scalar is a  *)
(* record of its type tag and its text; an array carries its elements.     *)
(***************************************************************************)
Undef == [t |-> "undefined", v |-> ""]
Null == [t |-> "null", v |-> ""]
Str(s) == [t |-> "string", v |-> s]
Num(s) == [t |-> "number", v |-> s]
Arr(xs) == [t |-> "array", a |-> xs]

\* JavaScript truthiness, as used by if(x), !x and x || y.
Truthy(x) ==
  CASE x.t = "undefined" -> FALSE
    [] x.t = "null" -> FALSE
    [] x.t = "string" -> x.v # ""
    [] x.t = "number" -> x.v # "0"
    [] OTHER -> TRUE

\* x || null
OrNull(x) == IF Truthy(x) THEN x ELSE Null

\* JSON.stringify drops a property whose value is undefined; a column that
\* is not sent on insert takes its default, null.
Sent(x) == x.t # "undefined"
InsertedValue(x) == IF Sent(x) THEN x ELSE Null

Min(S) == CHOOSE m \in S : \A n \in S : m <= n

(***************************************************************************)
(* Header values and addresses: strings are sequences of characters.       *)
(***************************************************************************)
Chars == {"1", ",", " "}
HAbsent == [t |-> "undefined", s |-> <<>>]
HStr(s) == [t |-> "string", s |-> s]
HArr(s) == [t |-> "array", s |-> s]
NoAddr == [t |-> "null", s |-> <<>>]

\* xff.split(',')[0]
FirstEntry(s) ==
  LET commas == {i \in 1..Len(s) : s[i] = ","}
  IN IF commas = {} THEN s ELSE SubSeq(s, 1, Min(commas) - 1)

RECURSIVE TrimStart(_)
TrimStart(s) == IF s # <<>> /\ Head(s) = " " THEN TrimStart(Tail(s)) ELSE s

RECURSIVE TrimEnd(_)
TrimEnd(s) ==
  IF s # <<>> /\ s[Len(s)] = " " THEN TrimEnd(SubSeq(s, 1, Len(s) - 1)) ELSE s

\* String.prototype.trim
Trim(s) == TrimEnd(TrimStart(s))

\* A plausible slip: the first entry is returned untrimmed.
getClientIpNoTrim(req) ==
  LET xff == req.headers.xff
  IN IF xff.t = "string" /\ xff.s # <<>>
       THEN HStr(FirstEntry(xff.s))
       ELSE IF req.peer.t = "string" /\ req.peer.s # <<>> THEN req.peer ELSE NoAddr

\* getClientIp(req): xff && typeof xff === 'string' ? first entry, trimmed
\*                   : req.socket?.remoteAddress || null
getClientIp(req) ==
  LET xff == req.headers.xff
  IN IF xff.t = "string" /\ xff.s # <<>>
       THEN HStr(Trim(FirstEntry(xff.s)))
       ELSE IF req.peer.t = "string" /\ req.peer.s # <<>> THEN req.peer ELSE NoAddr

(***************************************************************************)
(* State.                                                                  *)
(***************************************************************************)
VARIABLES
  users,             \* the users table, in insertion order
  consent_logs,      \* the consent_logs table
  device_locations,  \* the device_locations table
  call_logs,         \* the call_logs table
  ip_locations,      \* the ip_locations table
  now,               \* the clock read by new Date() and by the store
  token,             \* process.env.IPINFO_TOKEN (Undef when not configured)
  pending,           \* requests suspended at an await, in order of arrival
  last,              \* the request that completed last, with its response
  nreq,              \* requests issued so far
  lookups,           \* outbound geolocation lookups issued so far
  admin,             \* the GET /admin/users request in progress
  rreq,              \* resolver harness: the request given to getClientIp
  rout               \* resolver harness: what getClientIp returned

tables == <<users, consent_logs, device_locations, call_logs, ip_locations>>
vars == <<users, consent_logs, device_locations, call_logs, ip_locations,
          now, token, pending, last, nreq, lookups, admin, rreq, rout>>

NoResponse == [ep |-> "none", status |-> 0, seq |-> 0]
NotResolved == [t |-> "pending", s |-> <<>>]
AdminIdle == [pc |-> "idle"]

\* Requests the model sends: header maps and peer addresses of the
\* ingestion endpoints.
Peers == {HAbsent, HStr(<<"9">>)}
DirectReq == [headers |-> [xff |-> HAbsent], peer |-> HStr(<<"9">>)]
ProxiedReq ==
  [headers |-> [xff |-> HStr(<<"1", ",", " ", "1", "1">>)], peer |-> HStr(<<"9">>)]
SampleReqs == {DirectReq, ProxiedReq}

StoreMsg == "store error"

\* res.status(s).json({ok:false, error}) and res.json({ok:true, ...}), kept
\* with the request's body, the length its table had when the response was
\* produced, whether the store rejected a call of the request, and the
\* number of responses sent so far.
Respond(ep, body, status, error, data, before) ==
  [ep |-> ep, body |-> body, status |-> status, ok |-> (status = 200),
   error |-> error, data |-> data, before |-> before, rejected |-> FALSE,
   seq |-> last.seq + 1]

\* The response of a request one of whose store calls was rejected.
Rejected(r) == [r EXCEPT !.rejected = TRUE]

Remove(q, i) == SubSeq(q, 1, i - 1) \o SubSeq(q, i + 1, Len(q))

CanIssue == nreq < MaxReq /\ Len(pending) < MaxInflight

InitRest ==
  /\ last = NoResponse
  /\ nreq = 0
  /\ lookups = 0
  /\ admin = AdminIdle
  /\ rreq = [headers |-> [xff |-> HAbsent], peer |-> HAbsent]
  /\ rout = NotResolved

\* Rows the store may hold when the server starts: a user registered and a
\* location reported during an earlier run.
SeedUser ==
  [id |-> "id1", username |-> Str("alice"), phone |-> Str("555"), created_at |-> 0]
SeedLocation ==
  [user_id |-> Str("id1"), latitude |-> Num("48.8"), longitude |-> Num("2.3"),
   accuracy |-> Null, ip |-> HStr(<<"9">>), created_at |-> 0]

\* The server has started: nothing is in flight.  The store is empty or
\* holds the seed rows; the provider token is configured or not.
InitWith(U, L, T) ==
  /\ users \in U
  /\ consent_logs = <<>>
  /\ device_locations \in L
  /\ call_logs = <<>>
  /\ ip_locations = <<>>
  /\ now = 0
  /\ token \in T
  /\ pending = <<>>
  /\ InitRest

Init == InitWith({<<SeedUser>>}, {<<>>}, {Undef, Str("tok")})

\* The clock advances between events.
Tick ==
  /\ now < MaxClock
  /\ now' = now + 1
  /\ UNCHANGED <<tables, token, pending, last, nreq, lookups, admin, rreq, rout>>

(***************************************************************************)
(* The store.  An insert appends the rows; a column the payload does not   *)
(* carry takes the store's default (created_at: the time of the insert).   *)
(* Every store call may be rejected, and then resolves to {data: null,     *)
(* error}, the tables unchanged.                                           *)
(***************************************************************************)
WithCreatedAt(r, t) ==
  IF "created_at" \in DOMAIN r THEN r
  ELSE [f \in DOMAIN r \cup {"created_at"} |-> IF f = "created_at" THEN t ELSE r[f]]

\* A plausible slip: the insert replaces the table's rows (an upsert of the
\* whole table).
StoreInsertReplacing(table, rows, t) ==
  [i \in 1..Len(rows) |-> WithCreatedAt(rows[i], t)]

\* A plausible slip: of a batch only the first row is written.
StoreInsertFirstOnly(table, rows, t) ==
  table \o [i \in 1..(IF rows = <<>> THEN 0 ELSE 1) |-> WithCreatedAt(rows[i], t)]

\* supabase.from(table).insert(rows)
StoreInsert(table, rows, t) ==
  table \o [i \in 1..Len(rows) |-> WithCreatedAt(rows[i], t)]

IdNames == <<"id1", "id2", "id3", "id4", "id5", "id6">>

\* A plausible slip: the generated id is not unique.
NewIdReused(table) == IdNames[1]

\* The id the store generates for a new users row.
NewId(table) == IdNames[Len(table) + 1]

\* The value a column has after update({col: new}): the payload travels as
\* JSON, so a column whose value is undefined is not part of the update.
UpdateValue(old, new) == IF Sent(new) THEN new ELSE old

\* A plausible slip: the update is an upsert, which adds a row for an id
\* that matches none.
StoreUpsertUser(table, id, username, phone) ==
  IF \E i \in 1..Len(table) : id.t = "string" /\ table[i].id = id.v
    THEN [i \in 1..Len(table) |->
            IF id.t = "string" /\ table[i].id = id.v
              THEN [table[i] EXCEPT !.username = UpdateValue(@, username),
                                    !.phone = UpdateValue(@, phone)]
              ELSE table[i]]
    ELSE Append(table, [id |-> id.v, username |-> username, phone |-> phone,
                        created_at |-> 0])

\* supabase.from('users').update({username, phone}).eq('id', id)
StoreUpdateUser(table, id, username, phone) ==
  [i \in 1..Len(table) |->
     IF id.t = "string" /\ table[i].id = id.v
       THEN [table[i] EXCEPT !.username = UpdateValue(@, username),
                             !.phone = UpdateValue(@, phone)]
       ELSE table[i]]

(***************************************************************************)
(* POST /users                                                             *)
(***************************************************************************)
UsersBodies ==
  [id : {Undef, Str("id1"), Str("ghost")}, username : {Undef, Str("alice"), Str("bob")},
   phone : {Undef, Str("555")}, created_at : {Undef}]
UsersBodiesFew ==
  [id : {Undef, Str("id1")}, username : {Str("bob")},
   phone : {Undef}, created_at : {Undef, Str("1999")}]

\* The handler up to its await: the branch is chosen by if(id).
PostUsers(body) ==
  /\ CanIssue
  /\ nreq' = nreq + 1
  /\ pending' = Append(pending,
       [ep |-> "users", op |-> IF Truthy(body.id) THEN "update" ELSE "insert",
        body |-> body])
  /\ UNCHANGED <<tables, now, token, last, lookups, admin, rreq, rout>>

\* The update settles: {ok:true, id}, or the store's error.
UsersUpdateDone(i) ==
  /\ pending[i].ep = "users" /\ pending[i].op = "update"
  /\ pending' = Remove(pending, i)
  /\ LET body == pending[i].body IN
     \/ /\ users' = StoreUpdateUser(users, body.id, body.username, body.phone)
        /\ last' = Respond("users", body, 200, "", [id |-> body.id], Len(users))
     \/ /\ users' = users
        /\ last' = Rejected(Respond("users", body, 500, StoreMsg, [id |-> Undef], Len(users)))
  /\ UNCHANGED <<consent_logs, device_locations, call_logs, ip_locations,
                 now, token, nreq, lookups, admin, rreq, rout>>

\* The insert settles: .select().single() returns the stored row.
UsersInsertDone(i) ==
  /\ pending[i].ep = "users" /\ pending[i].op = "insert"
  /\ pending' = Remove(pending, i)
  /\ LET body == pending[i].body
         row == [id |-> NewId(users), username |-> InsertedValue(body.username),
                 phone |-> InsertedValue(body.phone)]
     IN
     \/ /\ users' = StoreInsert(users, <<row>>, now)
        /\ last' = Respond("users", body, 200, "", [id |-> Str(row.id)], Len(users))
     \/ /\ users' = users
        /\ last' = Rejected(Respond("users", body, 500, StoreMsg, [id |-> Undef], Len(users)))
  /\ UNCHANGED <<consent_logs, device_locations, call_logs, ip_locations,
                 now, token, nreq, lookups, admin, rreq, rout>>

(***************************************************************************)
(* POST /consent                                                           *)
(***************************************************************************)
ConsentBodies ==
  [user_id : {Undef, Str(""), Str("id1"), Num("7")},
   consent_text : {Undef, Str(""), Str("I agree"), Num("42")},
   created_at : {Undef}]
ConsentBodiesFew ==
  [user_id : {Undef, Str("id1")}, consent_text : {Str("I agree")},
   created_at : {Undef, Str("1999")}]
  \cup {[user_id |-> Str(""), consent_text |-> Str("I agree"), created_at |-> Undef]}

\* A plausible slip: only consent_text is checked.
ConsentInvalidTextOnly(body) == ~Truthy(body.consent_text)

\* if(!user_id || !consent_text)
ConsentInvalid(body) == ~Truthy(body.user_id) \/ ~Truthy(body.consent_text)

ConsentRow(body) ==
  [user_id |-> body.user_id, consent_text |-> body.consent_text, given |-> TRUE]

PostConsent(body) ==
  /\ CanIssue
  /\ nreq' = nreq + 1
  /\ IF ConsentInvalid(body)
       THEN /\ last' = Respond("consent", body, 400, "user_id et consent_text requis",
                               <<>>, Len(consent_logs))
            /\ pending' = pending
       ELSE /\ pending' = Append(pending,
                 [ep |-> "consent", op |-> "insert", body |-> body,
                  rows |-> <<ConsentRow(body)>>])
            /\ last' = last
  /\ UNCHANGED <<tables, now, token, lookups, admin, rreq, rout>>

\* A plausible slip: the error of the insert is not looked at.
ConsentDoneUnchecked(i) ==
  /\ pending[i].ep = "consent"
  /\ pending' = Remove(pending, i)
  /\ LET body == pending[i].body IN
     \/ /\ consent_logs' = StoreInsert(consent_logs, pending[i].rows, now)
        /\ last' = Respond("consent", body, 200, "", <<>>, Len(consent_logs))
     \/ /\ consent_logs' = consent_logs
        /\ last' = Rejected(Respond("consent", body, 200, "", <<>>, Len(consent_logs)))
  /\ UNCHANGED <<users, device_locations, call_logs, ip_locations,
                 now, token, nreq, lookups, admin, rreq, rout>>

ConsentDone(i) ==
  /\ pending[i].ep = "consent"
  /\ pending' = Remove(pending, i)
  /\ LET body == pending[i].body IN
     \/ /\ consent_logs' = StoreInsert(consent_logs, pending[i].rows, now)
        /\ last' = Respond("consent", body, 200, "", <<>>, Len(consent_logs))
     \/ /\ consent_logs' = consent_logs
        /\ last' = Rejected(Respond("consent", body, 500, StoreMsg, <<>>, Len(consent_logs)))
  /\ UNCHANGED <<users, device_locations, call_logs, ip_locations,
                 now, token, nreq, lookups, admin, rreq, rout>>

(***************************************************************************)
(* POST /report-location                                                   *)
(***************************************************************************)
LocationBodies ==
  [user_id : {Undef, Str("id1")},
   latitude : {Undef, Num("48.8"), Str("48.8")},
   longitude : {Undef, Num("2.3"), Str("2.3")},
   accuracy : {Undef, Num("0"), Num("5")},
   created_at : {Undef}]
LocationBodiesFew ==
  [user_id : {Undef, Str("id1")}, latitude : {Num("48.8")},
   longitude : {Num("2.3")}, accuracy : {Undef}, created_at : {Undef, Str("1999")}]

\* A plausible slip: a numeric string passes for a number.
LocationInvalidLoose(body) ==
  \/ ~Truthy(body.user_id)
  \/ body.latitude.t \notin {"number", "string"}
  \/ body.longitude.t \notin {"number", "string"}

\* if(!user_id || typeof latitude !== 'number' || typeof longitude !== 'number')
LocationInvalid(body) ==
  \/ ~Truthy(body.user_id)
  \/ body.latitude.t # "number"
  \/ body.longitude.t # "number"

LocationPayload(body, ip, t) ==
  [user_id |-> body.user_id, latitude |-> body.latitude, longitude |-> body.longitude,
   accuracy |-> OrNull(body.accuracy), ip |-> ip, created_at |-> t]

PostReportLocation(req, body) ==
  /\ CanIssue
  /\ nreq' = nreq + 1
  /\ IF LocationInvalid(body)
       THEN /\ last' = Respond("report-location", body, 400,
                               "user_id, latitude et longitude requis", <<>>,
                               Len(device_locations))
            /\ pending' = pending
       ELSE /\ pending' = Append(pending,
                 [ep |-> "report-location", op |-> "insert", body |-> body,
                  ip |-> getClientIp(req), t |-> now,
                  rows |-> <<LocationPayload(body, getClientIp(req), now)>>])
            /\ last' = last
  /\ UNCHANGED <<tables, now, token, lookups, admin, rreq, rout>>

LocationDone(i) ==
  /\ pending[i].ep = "report-location"
  /\ pending' = Remove(pending, i)
  /\ LET body == pending[i].body IN
     \/ /\ device_locations' = StoreInsert(device_locations, pending[i].rows, now)
        /\ last' = Respond("report-location", body, 200, "", <<>>, Len(device_locations))
     \/ /\ device_locations' = device_locations
        /\ last' = Rejected(Respond("report-location", body, 500, StoreMsg, <<>>,
                           Len(device_locations)))
  /\ UNCHANGED <<users, consent_logs, call_logs, ip_locations,
                 now, token, nreq, lookups, admin, rreq, rout>>

(***************************************************************************)
(* POST /report-calls                                                      *)
(***************************************************************************)
CallA ==
  [number |-> Str("123"), direction |-> Str("in"), started_at |-> Num("100"),
   duration_seconds |-> Num("60"), created_at |-> Undef]
CallB ==
  [number |-> Str("456"), direction |-> Undef, started_at |-> Undef,
   duration_seconds |-> Num("0"), created_at |-> Str("1999")]
CallC ==
  [number |-> Num("7"), direction |-> Str("out"), started_at |-> Num("200"),
   duration_seconds |-> Undef, created_at |-> Undef]

\* The calls[] arrays sent: the batches of 0..MaxCalls calls taken in turn
\* from CallA, CallB, CallC, and a batch holding a null element.
CallAt(i) == CASE i % 3 = 1 -> CallA [] i % 3 = 2 -> CallB [] OTHER -> CallC
Batch(n) == [i \in 1..n |-> CallAt(i)]
CallsBodies ==
  [user_id : {Undef, Str("id1")},
   calls : {Undef, Str("123"), Arr(<<Null>>)} \cup {Arr(Batch(n)) : n \in 0..MaxCalls}]
CallsBodiesFew ==
  [user_id : {Str("id1")}, calls : {Arr(<<>>), Arr(<<CallB>>)}]

\* if(!user_id || !Array.isArray(calls))
CallsInvalid(body) == ~Truthy(body.user_id) \/ body.calls.t # "array"

\* new Date(c.started_at)
ToDate(x) == [t |-> "date", v |-> x.v]

\* The readings of new Date() taken while calls.map runs, one per element:
\* the clock may advance between two of them.
ClockReadings(n) ==
  {s \in [1..n -> now..MaxClock] : \A i \in 1..n, j \in 1..n : i <= j => s[i] <= s[j]}

\* A plausible slip: the row takes the element's own created_at.
CallRowTrusting(user_id, c, t) ==
  [user_id |-> user_id, number |-> c.number, direction |-> OrNull(c.direction),
   started_at |-> IF Truthy(c.started_at) THEN ToDate(c.started_at) ELSE Null,
   duration_seconds |-> OrNull(c.duration_seconds),
   created_at |-> IF Truthy(c.created_at) THEN -1 ELSE t]

\* The body of calls.map(c => ({...})), t the reading of new Date().
CallRow(user_id, c, t) ==
  [user_id |-> user_id, number |-> c.number, direction |-> OrNull(c.direction),
   started_at |-> IF Truthy(c.started_at) THEN ToDate(c.started_at) ELSE Null,
   duration_seconds |-> OrNull(c.duration_seconds), created_at |-> t]

CallRows(body, stamps) ==
  [i \in 1..Len(body.calls.a) |-> CallRow(body.user_id, body.calls.a[i], stamps[i])]

PostReportCalls(body) ==
  /\ CanIssue
  /\ nreq' = nreq + 1
  /\ IF CallsInvalid(body)
       THEN /\ last' = Respond("report-calls", body, 400, "user_id et calls[] requis",
                               [inserted |-> 0], Len(call_logs))
            /\ UNCHANGED <<pending, now>>
       ELSE IF \E i \in 1..Len(body.calls.a) : body.calls.a[i] = Null
       THEN \* c.number on a null element throws a TypeError
            /\ last' = Respond("report-calls", body, 500,
                               "Cannot read properties of null", [inserted |-> 0],
                               Len(call_logs))
            /\ UNCHANGED <<pending, now>>
       ELSE \E stamps \in ClockReadings(Len(body.calls.a)) :
            /\ pending' = Append(pending,
                 [ep |-> "report-calls", op |-> "insert", body |-> body,
                  stamps |-> stamps, rows |-> CallRows(body, stamps)])
            /\ now' = IF stamps = <<>> THEN now ELSE stamps[Len(stamps)]
            /\ last' = last
  /\ UNCHANGED <<tables, token, lookups, admin, rreq, rout>>

CallsDone(i) ==
  /\ pending[i].ep = "report-calls"
  /\ pending' = Remove(pending, i)
  /\ LET body == pending[i].body
         rows == pending[i].rows
     IN
     \/ /\ call_logs' = StoreInsert(call_logs, rows, now)
        /\ last' = Respond("report-calls", body, 200, "", [inserted |-> Len(rows)],
                           Len(call_logs))
     \/ /\ call_logs' = call_logs
        /\ last' = Rejected(Respond("report-calls", body, 500, StoreMsg, [inserted |-> 0],
                           Len(call_logs)))
  /\ UNCHANGED <<users, consent_logs, device_locations, ip_locations,
                 now, token, nreq, lookups, admin, rreq, rout>>

(***************************************************************************)
(* POST /report-ip                                                         *)
(***************************************************************************)
IpBodies == [user_id : {Undef, Str(""), Str("id1")}, created_at : {Undef}]
IpBodiesFew == [user_id : {Undef, Str("id1")}, created_at : {Undef, Str("1999")}]

\* What the provider answers: any of the fields may be missing.
GeoFull ==
  [city |-> Str("Paris"), region |-> Str("IDF"), country |-> Str("FR"),
   loc |-> Str("48.8,2.3"), org |-> Str("AS1")]
GeoNoCity == [GeoFull EXCEPT !.city = Undef]
GeoEmpty ==
  [city |-> Undef, region |-> Undef, country |-> Undef, loc |-> Undef, org |-> Undef]
GeoSamples == {GeoFull, GeoNoCity, GeoEmpty}

\* A plausible slip: the geo fields are stored as received.
IpRowAsReceived(user_id, ip, geo, t) ==
  [user_id |-> user_id, ip |-> ip, city |-> geo.city, region |-> geo.region,
   country |-> geo.country, loc |-> geo.loc, provider |-> geo.org, created_at |-> t]

IpRow(user_id, ip, geo, t) ==
  [user_id |-> user_id, ip |-> ip, city |-> OrNull(geo.city),
   region |-> OrNull(geo.region), country |-> OrNull(geo.country),
   loc |-> OrNull(geo.loc), provider |-> OrNull(geo.org), created_at |-> t]

\* The handler up to await fetch(...): the token is checked first, then the
\* body.
PostReportIp(req, body) ==
  /\ CanIssue
  /\ nreq' = nreq + 1
  /\ IF ~Truthy(token)
       THEN /\ last' = Respond("report-ip", body, 500, "IPINFO_TOKEN non configure",
                               <<>>, Len(ip_locations))
            /\ UNCHANGED <<pending, lookups>>
       ELSE IF ~Truthy(body.user_id)
       THEN /\ last' = Respond("report-ip", body, 400, "user_id requis", <<>>,
                               Len(ip_locations))
            /\ UNCHANGED <<pending, lookups>>
       ELSE /\ pending' = Append(pending,
                 [ep |-> "report-ip", op |-> "lookup", body |-> body,
                  ip |-> getClientIp(req)])
            /\ lookups' = lookups + 1
            /\ last' = last
  /\ UNCHANGED <<tables, now, token, admin, rreq, rout>>

\* fetch and resp.json() settle: the row is built and the insert is issued,
\* or the failure is caught.
IpLookupDone(i) ==
  /\ pending[i].ep = "report-ip" /\ pending[i].op = "lookup"
  /\ LET p == pending[i] IN
     \/ \E geo \in GeoSamples :
          /\ pending' = [pending EXCEPT ![i] =
               [ep |-> "report-ip", op |-> "insert", body |-> p.body, ip |-> p.ip,
                geo |-> geo, t |-> now,
                rows |-> <<IpRow(p.body.user_id, p.ip, geo, now)>>]]
          /\ last' = last
     \/ /\ pending' = Remove(pending, i)
        /\ last' = Respond("report-ip", p.body, 500, "fetch failed", <<>>,
                           Len(ip_locations))
  /\ UNCHANGED <<tables, now, token, nreq, lookups, admin, rreq, rout>>

IpInsertDone(i) ==
  /\ pending[i].ep = "report-ip" /\ pending[i].op = "insert"
  /\ pending' = Remove(pending, i)
  /\ LET p == pending[i] IN
     \/ /\ ip_locations' = StoreInsert(ip_locations, p.rows, now)
        /\ last' = Respond("report-ip", p.body, 200, "", [geo |-> p.geo],
                           Len(ip_locations))
     \/ /\ ip_locations' = ip_locations
        /\ last' = Rejected(Respond("report-ip", p.body, 500, StoreMsg, <<>>, Len(ip_locations)))
  /\ UNCHANGED <<users, consent_logs, device_locations, call_logs,
                 now, token, nreq, lookups, admin, rreq, rout>>

(***************************************************************************)
(* GET /admin/users                                                        *)
(***************************************************************************)
UsersLimit == 200
CallsLimit == 10

\* The data of a settled query: null when the store rejected it.
QNull == [t |-> "null", a |-> <<>>]
QRows(rows) == [t |-> "rows", a |-> rows]
Unsettled == [t |-> "unsettled", a |-> <<>>]

Take(s, n) == SubSeq(s, 1, IF Len(s) < n THEN Len(s) ELSE n)

\* The indexes S by descending key; rows with equal keys in insertion order.
RECURSIVE SortDesc(_, _)
SortDesc(S, key) ==
  IF S = {} THEN <<>>
  ELSE LET best == CHOOSE i \in S :
                     \A j \in S : key[i] > key[j] \/ (key[i] = key[j] /\ i <= j)
       IN <<best>> \o SortDesc(S \ {best}, key)

\* A plausible slip: the filter on the user is missing.
RowsOfAnyUser(table, uid) == 1..Len(table)

\* .eq('user_id', u.id)
RowsOfUser(table, uid) == {i \in 1..Len(table) : table[i].user_id = Str(uid)}

\* from('users').select(...).order('created_at', {ascending:false}).limit(200)
UsersPage(table) ==
  LET order == SortDesc(1..Len(table), [i \in 1..Len(table) |-> table[i].created_at])
  IN Take([k \in 1..Len(order) |-> table[order[k]]], UsersLimit)

\* .eq('user_id', u.id).order('created_at', {ascending:false}).limit(1): the
\* possible results; rows with equal created_at come in an order the store
\* chooses.
LatestOfUser(table, uid) ==
  LET S == RowsOfUser(table, uid)
  IN IF S = {} THEN {<<>>}
     ELSE {<<table[i]>> : i \in {x \in S : \A y \in S :
                                   table[x].created_at >= table[y].created_at}}

\* The sort key of started_at, descending: the store puts nulls first.
StartKey(row) ==
  CASE row.started_at.t = "null" -> 1000
    [] row.started_at.v = "100" -> 100
    [] row.started_at.v = "200" -> 200
    [] OTHER -> 0

\* from('call_logs').select('*').eq('user_id', u.id)
\*   .order('started_at', {ascending:false}).limit(10)
CallsOfUser(table, uid) ==
  LET S == RowsOfUser(table, uid)
      order == SortDesc(S, [i \in S |-> StartKey(table[i])])
  IN Take([k \in 1..Len(order) |-> table[order[k]]], CallsLimit)

\* data?.[0] || null
FirstOrNull(d) == IF d.t = "rows" /\ d.a # <<>> THEN d.a[1] ELSE Null

\* The store queries issued for the user at hand, per table.
NoQueries == [device_locations |-> 0, ip_locations |-> 0, call_logs |-> 0]

\* The loop at the top of its body for page[k].  seen_users, seen_locations,
\* seen_calls and seen_ips are the tables as they were when they were queried
\* (ip_locations: by the query whose result is used).
AdminAt(page, k, results, rejected, seen_users) ==
  [pc |-> "pair", page |-> page, k |-> k, results |-> results,
   loc |-> Unsettled, ip1 |-> FALSE, calls |-> Unsettled, seen_locations |-> <<>>,
   seen_calls |-> <<>>, seen_ips |-> <<>>, seen_users |-> seen_users,
   queries |-> NoQueries,
   rejected |-> rejected]

\* The users query settles.  A rejected query leaves users null, and
\* for(const u of users) throws a TypeError, which the catch reports.
AdminUsers ==
  /\ admin.pc = "idle"
  /\ nreq < MaxReq
  /\ nreq' = nreq + 1
  /\ \/ LET page == UsersPage(users) IN
        IF page = <<>>
          THEN /\ last' = Respond("admin", <<>>, 200, "",
                                   [results |-> <<>>, seen_users |-> users], 0)
               /\ admin' = admin
          ELSE /\ admin' = AdminAt(page, 1, <<>>, FALSE, users)
               /\ last' = last
     \/ /\ last' = Rejected(Respond("admin", <<>>, 500, "users is not iterable",
                                    [results |-> <<>>, seen_users |-> users], 0))
        /\ admin' = admin
  /\ UNCHANGED <<tables, now, token, pending, lookups, rreq, rout>>

AfterPair(a) == IF a.loc # Unsettled /\ a.ip1 THEN [a EXCEPT !.pc = "calls"] ELSE a

\* What a query resolves to: one of its possible results, or {data: null}
\* when the store rejects it.
Settled(results) == {QRows(r) : r \in results} \cup {QNull}

\* Promise.all: the device_locations query settles.
AdminLoc ==
  /\ admin.pc = "pair" /\ admin.loc = Unsettled
  /\ \E d \in Settled(LatestOfUser(device_locations, admin.page[admin.k].id)) :
       admin' = AfterPair([admin EXCEPT !.loc = d,
                                        !.seen_locations = device_locations,
                                        !.queries.device_locations = @ + 1,
                                        !.rejected = @ \/ d = QNull])
  /\ UNCHANGED <<tables, now, token, pending, last, nreq, lookups, rreq, rout>>

\* Promise.all: the first ip_locations query settles; its data is not used.
AdminIp1 ==
  /\ admin.pc = "pair" /\ ~admin.ip1
  /\ \E d \in Settled(LatestOfUser(ip_locations, admin.page[admin.k].id)) :
       admin' = AfterPair([admin EXCEPT !.ip1 = TRUE,
                                        !.queries.ip_locations = @ + 1,
                                        !.rejected = @ \/ d = QNull])
  /\ UNCHANGED <<tables, now, token, pending, last, nreq, lookups, rreq, rout>>

\* The call_logs query settles.
AdminCalls ==
  /\ admin.pc = "calls"
  /\ \E d \in Settled({CallsOfUser(call_logs, admin.page[admin.k].id)}) :
       admin' = [admin EXCEPT !.pc = "ip2", !.calls = d,
                              !.seen_calls = call_logs,
                              !.queries.call_logs = @ + 1,
                              !.rejected = @ \/ d = QNull]
  /\ UNCHANGED <<tables, now, token, pending, last, nreq, lookups, rreq, rout>>

\* results.push({user, last_location, last_ip, calls}), kept with the tables
\* as the user's queries saw them and the number of queries issued.
AdminEntry(a, ip) ==
  [user |-> a.page[a.k],
   last_location |-> FirstOrNull(a.loc),
   last_ip |-> FirstOrNull(ip),
   calls |-> IF a.calls.t = "rows" THEN a.calls.a ELSE <<>>,
   seen_locations |-> a.seen_locations,
   seen_calls |-> a.seen_calls,
   seen_ips |-> a.seen_ips,
   queries |-> a.queries]

\* The second ip_locations query settles: the entry is pushed, and the loop
\* goes to the next user or the response is sent.
AdminIp2 ==
  /\ admin.pc = "ip2"
  /\ \E d \in Settled(LatestOfUser(ip_locations, admin.page[admin.k].id)) :
       LET asked == [admin EXCEPT !.queries.ip_locations = @ + 1,
                                  !.seen_ips = ip_locations]
           results == Append(admin.results, AdminEntry(asked, d))
           rejected == admin.rejected \/ d = QNull
           response == Respond("admin", <<>>, 200, "",
                               [results |-> results, seen_users |-> admin.seen_users], 0)
       IN IF admin.k < Len(admin.page)
            THEN /\ admin' = AdminAt(admin.page, admin.k + 1, results, rejected,
                                     admin.seen_users)
                 /\ last' = last
            ELSE /\ admin' = AdminIdle
                 /\ last' = IF rejected THEN Rejected(response) ELSE response
  /\ UNCHANGED <<tables, now, token, pending, nreq, lookups, rreq, rout>>

(***************************************************************************)
(* GET /health                                                             *)
(***************************************************************************)
GetHealth ==
  /\ nreq < MaxReq
  /\ nreq' = nreq + 1
  /\ last' = Respond("health", <<>>, 200, "", [time |-> now], 0)
  /\ UNCHANGED <<tables, now, token, pending, lookups, admin, rreq, rout>>

(***************************************************************************)
(* Specifications.  Spec is the whole server with a few bodies per         *)
(* endpoint; the others exercise one endpoint with all its bodies.         *)
(***************************************************************************)
Settle ==
  \E i \in 1..Len(pending) :
    \/ UsersUpdateDone(i)
    \/ UsersInsertDone(i)
    \/ ConsentDone(i)
    \/ LocationDone(i)
    \/ CallsDone(i)
    \/ IpLookupDone(i)
    \/ IpInsertDone(i)

AdminStep == AdminUsers \/ AdminLoc \/ AdminIp1 \/ AdminCalls \/ AdminIp2

Next ==
  \/ Tick
  \/ \E body \in UsersBodiesFew : PostUsers(body)
  \/ \E body \in ConsentBodiesFew : PostConsent(body)
  \/ \E body \in LocationBodiesFew : PostReportLocation(ProxiedReq, body)
  \/ \E body \in CallsBodiesFew : PostReportCalls(body)
  \/ \E body \in IpBodiesFew : PostReportIp(ProxiedReq, body)
  \/ GetHealth
  \/ AdminStep
  \/ Settle

Spec == Init /\ [][Next]_vars

NextUsers ==
  \/ \E body \in UsersBodies : PostUsers(body)
  \/ \E i \in 1..Len(pending) : UsersUpdateDone(i) \/ UsersInsertDone(i)

SpecUsers == InitWith({<<>>, <<SeedUser>>}, {<<>>}, {Str("tok")}) /\ [][NextUsers]_vars

NextConsent ==
  \/ Tick
  \/ \E body \in ConsentBodies : PostConsent(body)
  \/ \E i \in 1..Len(pending) : ConsentDone(i)

SpecConsent == InitWith({<<>>}, {<<>>}, {Str("tok")}) /\ [][NextConsent]_vars

NextLocation ==
  \/ Tick
  \/ \E req \in SampleReqs, body \in LocationBodies : PostReportLocation(req, body)
  \/ \E i \in 1..Len(pending) : LocationDone(i)

SpecLocation == InitWith({<<>>}, {<<>>, <<SeedLocation>>}, {Str("tok")}) /\ [][NextLocation]_vars

NextCalls ==
  \/ \E body \in CallsBodies : PostReportCalls(body)
  \/ \E i \in 1..Len(pending) : CallsDone(i)

SpecCalls == InitWith({<<>>}, {<<>>}, {Str("tok")}) /\ [][NextCalls]_vars

NextIp ==
  \/ Tick
  \/ \E req \in SampleReqs, body \in IpBodies : PostReportIp(req, body)
  \/ \E i \in 1..Len(pending) : IpLookupDone(i) \/ IpInsertDone(i)

SpecIp == InitWith({<<>>}, {<<>>}, {Undef, Str("tok")}) /\ [][NextIp]_vars

NextAdmin ==
  \/ Tick
  \/ \E body \in UsersBodiesFew : PostUsers(body)
  \/ \E body \in LocationBodiesFew : PostReportLocation(ProxiedReq, body)
  \/ \E i \in 1..Len(pending) :
       UsersUpdateDone(i) \/ UsersInsertDone(i) \/ LocationDone(i)
  \/ AdminStep

SpecAdmin ==
  InitWith({<<>>, <<SeedUser>>}, {<<>>, <<SeedLocation>>}, {Str("tok")}) /\ [][NextAdmin]_vars

(***************************************************************************)
(* The client network resolver on its own: getClientIp applied to every    *)
(* header map and peer address within the bounds.                          *)
(***************************************************************************)
\* The dashboard read next to the writers of the tables it reads, over a
\* store that holds two users and rows of the first in each table.
SeedUser2 ==
  [id |-> "id2", username |-> Str("carol"), phone |-> Null, created_at |-> 0]
SeedIp == IpRow(Str("id1"), HStr(<<"9">>), GeoFull, 0)
SeedCalls == <<CallRow(Str("id1"), CallA, 0), CallRow(Str("id1"), CallB, 0)>>

InitReader ==
  /\ users = <<SeedUser, SeedUser2>>
  /\ consent_logs = <<>>
  /\ device_locations = <<SeedLocation>>
  /\ call_logs = SeedCalls
  /\ ip_locations = <<SeedIp>>
  /\ now = 0
  /\ token = Str("tok")
  /\ pending = <<>>
  /\ InitRest

NextReader ==
  \/ \E body \in LocationBodiesFew : PostReportLocation(ProxiedReq, body)
  \/ \E body \in CallsBodiesFew : PostReportCalls(body)
  \/ \E body \in IpBodiesFew : PostReportIp(ProxiedReq, body)
  \/ \E i \in 1..Len(pending) :
       LocationDone(i) \/ CallsDone(i) \/ IpLookupDone(i) \/ IpInsertDone(i)
  \/ AdminStep

SpecReader == InitReader /\ [][NextReader]_vars

RECURSIVE StringsUpTo(_)
StringsUpTo(n) ==
  IF n = 0 THEN {<<>>}
  ELSE LET shorter == StringsUpTo(n - 1)
       IN shorter \cup {Append(s, c) : s \in {x \in shorter : Len(x) = n - 1}, c \in Chars}

HeaderValues ==
  {HAbsent} \cup {HStr(s) : s \in StringsUpTo(MaxLen)} \cup {HArr(<<"1">>)}

ResolverInputs == {[headers |-> [xff |-> h], peer |-> p] : h \in HeaderValues, p \in Peers}

InitResolver ==
  /\ users = <<>>
  /\ consent_logs = <<>>
  /\ device_locations = <<>>
  /\ call_logs = <<>>
  /\ ip_locations = <<>>
  /\ now = 0
  /\ token = Undef
  /\ pending = <<>>
  /\ last = NoResponse
  /\ nreq = 0
  /\ lookups = 0
  /\ admin = AdminIdle
  /\ rreq \in ResolverInputs
  /\ rout = NotResolved

Resolve ==
  /\ rout = NotResolved
  /\ rout' = getClientIp(rreq)
  /\ UNCHANGED <<tables, now, token, pending, last, nreq, lookups, admin, rreq>>

NextResolver == Resolve
SpecResolver == InitResolver /\ [][NextResolver]_vars

(***************************************************************************)
(* Properties.  last is the request that completed most recently: every    *)
(* request is last in the state its response produces, so an invariant     *)
(* about last speaks of every request.  No table changes while last stays  *)
(* the same, except by the step that produced it.                          *)
(***************************************************************************)
PendingOf(ep) == {i \in 1..Len(pending) : pending[i].ep = ep}

\* The rows the last /report-calls request added to call_logs.
AddedCalls == SubSeq(call_logs, last.before + 1, Len(call_logs))

\* C1: every /report-calls batch of N calls that the store accepts adds
\* exactly N rows to call_logs, each with the submitted user_id, all with one
\* and the same created_at, and is answered ok:true with inserted = N.
C1_BatchSharesOneTimestamp ==
  (last.ep = "report-calls" /\ last.status = 200) =>
    LET N == Len(last.body.calls.a) IN
      /\ Len(call_logs) = last.before + N
      /\ \A i \in 1..Len(AddedCalls) : AddedCalls[i].user_id = last.body.user_id
      /\ \A i \in 1..Len(AddedCalls), j \in 1..Len(AddedCalls) :
           AddedCalls[i].created_at = AddedCalls[j].created_at
      /\ last.ok
      /\ last.data.inserted = N

\* The stored form of a value carried by a body: an absent value is stored
\* as null.
AsStored(x) == IF x = Undef THEN Null ELSE x

\* C2: after a POST /users bearing the id of an existing user has been
\* applied by the store, the number of users rows is unchanged and that
\* user's stored username and phone are exactly the values the call carried,
\* absent values included.
C2_UpdateStoresTheCallsValues ==
  (/\ last.ep = "users"
   /\ last.status = 200
   /\ Truthy(last.body.id)
   /\ \E i \in 1..Len(users) : users[i].id = last.body.id.v) =>
    /\ Len(users) = last.before
    /\ \A i \in 1..Len(users) :
         users[i].id = last.body.id.v =>
           /\ users[i].username = AsStored(last.body.username)
           /\ users[i].phone = AsStored(last.body.phone)

\* C3: in every GET /admin/users response, the last_location of a user is the
\* device_locations row of that user with the greatest created_at among the
\* rows present when the location query ran, and it is null only when the
\* user had no location row.
C3_LastLocationIsTheLatest ==
  (last.ep = "admin" /\ last.status = 200) =>
    \A k \in 1..Len(last.data.results) :
      LET e == last.data.results[k]
          S == RowsOfUser(e.seen_locations, e.user.id)
      IN IF S = {}
           THEN e.last_location = Null
           ELSE \E i \in S :
                  /\ e.last_location = e.seen_locations[i]
                  /\ \A j \in S : e.seen_locations[j].created_at
                                    <= e.seen_locations[i].created_at

\* A /report-location body in which user_id is missing, or latitude or
\* longitude is missing or not of numeric type.
BadLocationBody(b) ==
  \/ b.user_id = Undef
  \/ b.latitude.t # "number"
  \/ b.longitude.t # "number"

\* C4: a /report-location request whose user_id is missing, or whose latitude
\* or longitude is missing or not a number, is answered 400 with ok:false, no
\* insert is issued for it and device_locations is unchanged.
C4_BadLocationIs400 ==
  /\ \A i \in PendingOf("report-location") : ~BadLocationBody(pending[i].body)
  /\ (last.ep = "report-location" /\ BadLocationBody(last.body)) =>
       /\ last.status = 400
       /\ ~last.ok
       /\ Len(device_locations) = last.before
  /\ \A i \in 1..Len(device_locations) :
       /\ device_locations[i].latitude.t = "number"
       /\ device_locations[i].longitude.t = "number"

\* A numeric string for latitude has been refused.
C4_Witness ==
  /\ last.ep = "report-location"
  /\ last.status = 400
  /\ last.body.user_id = Str("id1")
  /\ last.body.latitude = Str("48.8")
  /\ last.body.longitude = Num("2.3")

\* The created_at values a client may put in a body or in a call.
ClientCreatedAt == {Undef, Str("1999")}

\* C5: the created_at of every stored row is a reading of the server's or
\* the store's clock, and the rows a request writes do not depend on a
\* created_at carried by its body: the same request with any other
\* client-supplied created_at builds the same rows.
C5_CreatedAtIsServerSide ==
  /\ \A i \in 1..Len(users) : users[i].created_at \in 0..now
  /\ \A i \in 1..Len(consent_logs) : consent_logs[i].created_at \in 0..now
  /\ \A i \in 1..Len(device_locations) : device_locations[i].created_at \in 0..now
  /\ \A i \in 1..Len(call_logs) : call_logs[i].created_at \in 0..now
  /\ \A i \in 1..Len(ip_locations) : ip_locations[i].created_at \in 0..now
  /\ \A i \in PendingOf("consent"), c \in ClientCreatedAt :
       pending[i].rows = <<ConsentRow([pending[i].body EXCEPT !.created_at = c])>>
  /\ \A i \in PendingOf("report-location"), c \in ClientCreatedAt :
       pending[i].rows =
         <<LocationPayload([pending[i].body EXCEPT !.created_at = c],
                           pending[i].ip, pending[i].t)>>
  /\ \A i \in PendingOf("report-calls"), c \in ClientCreatedAt :
       LET p == pending[i]
           calls == [k \in 1..Len(p.body.calls.a) |->
                       [p.body.calls.a[k] EXCEPT !.created_at = c]]
       IN p.rows = CallRows([p.body EXCEPT !.calls = Arr(calls)], p.stamps)
  /\ \A i \in PendingOf("report-ip") :
       pending[i].op = "insert" =>
         pending[i].rows =
           <<IpRow(pending[i].body.user_id, pending[i].ip, pending[i].geo, pending[i].t)>>

\* A call carrying its own created_at has been stored.
C5_Witness ==
  /\ last.ep = "report-calls"
  /\ last.status = 200
  /\ \E k \in 1..Len(last.body.calls.a) : last.body.calls.a[k].created_at = Str("1999")
  /\ Len(call_logs) > last.before

\* C6 as claimed: every POST /users whose body carries no id inserts exactly
\* one users row and answers with a newly generated id that differs from
\* every id issued earlier.
C6_EveryIdlessCallInserts ==
  (last.ep = "users" /\ last.body.id = Undef) =>
    /\ Len(users) = last.before + 1
    /\ last.data.id = Str(users[Len(users)].id)
    /\ \A i \in 1..last.before : users[i].id # users[Len(users)].id

\* C6, amended: every POST /users whose body carries no id and whose insert
\* the store accepts inserts exactly one users row and answers with the id
\* of that row, which differs from the id of every other users row; the ids
\* of all rows are pairwise distinct.
C6_AcceptedIdlessCallInserts ==
  /\ (last.ep = "users" /\ last.body.id = Undef /\ ~last.rejected) =>
       /\ last.status = 200
       /\ Len(users) = last.before + 1
       /\ last.data.id = Str(users[Len(users)].id)
       /\ \A i \in 1..last.before : users[i].id # users[Len(users)].id
  /\ \A i \in 1..Len(users), j \in 1..Len(users) : users[i].id = users[j].id => i = j

\* A registration without id has been accepted while users held a row.
C6_Witness ==
  /\ last.ep = "users"
  /\ last.body.id = Undef
  /\ last.status = 200
  /\ last.before >= 1
  /\ Len(users) = last.before + 1

\* C7: a request one of whose store calls was rejected is answered 500 with
\* ok:false and the store's own error message, never ok:true.
C7_StoreFailureIs500 ==
  (last.ep # "none" /\ last.rejected) =>
    /\ last.status = 500
    /\ ~last.ok
    /\ last.error = StoreMsg

\* C8: a /report-ip request whose body has no user_id is answered 400,
\* whether or not the provider token is configured; no lookup is issued for
\* it and no ip_locations row is written.
C8_MissingUserIdIs400 ==
  /\ \A i \in PendingOf("report-ip") : pending[i].body.user_id # Undef
  /\ (last.ep = "report-ip" /\ last.body.user_id = Undef) =>
       /\ last.status = 400
       /\ Len(ip_locations) = last.before

\* A non-empty string.
NonEmptyString(x) == x.t = "string" /\ x.v # ""

GoodConsentBody(b) == NonEmptyString(b.user_id) /\ NonEmptyString(b.consent_text)

\* C9: a /consent request in which user_id or consent_text is absent, empty
\* or not a string is answered 400 and writes no row; one in which both are
\* non-empty strings and whose write the store accepts appends exactly one
\* row with given = true.
C9_ConsentNeedsStrings ==
  /\ \A i \in PendingOf("consent") : GoodConsentBody(pending[i].body)
  /\ (last.ep = "consent" /\ ~GoodConsentBody(last.body)) =>
       /\ last.status = 400
       /\ Len(consent_logs) = last.before
  /\ (last.ep = "consent" /\ GoodConsentBody(last.body) /\ ~last.rejected) =>
       /\ Len(consent_logs) = last.before + 1
       /\ consent_logs[Len(consent_logs)].given = TRUE

\* r is the first comma-separated entry of x with the surrounding spaces
\* removed: x is spaces, r, spaces, and then ends or goes on with a comma.
IsFirstEntryTrimmed(x, r) ==
  \E n \in 0..Len(x) :
    /\ n = Len(x) \/ x[n + 1] = ","
    /\ \A j \in 1..n : x[j] # ","
    /\ \E a \in 0..n :
         /\ a + Len(r) <= n
         /\ \A j \in 1..a : x[j] = " "
         /\ \A j \in (a + Len(r) + 1)..n : x[j] = " "
         /\ SubSeq(x, a + 1, a + Len(r)) = r
         /\ r # <<>> => (r[1] # " " /\ r[Len(r)] # " ")

\* The transport peer address, or the absence value when there is none.
PeerOrAbsent(req) == IF req.peer.t = "string" THEN req.peer ELSE NoAddr

\* C10 as claimed: when x-forwarded-for is present and is a string,
\* getClientIp returns its first comma-separated entry, trimmed; in every
\* other case it returns the peer address, or the absence value.
C10_AnyStringHeaderWins ==
  (rout # NotResolved) =>
    IF rreq.headers.xff.t = "string"
      THEN rout.t = "string" /\ IsFirstEntryTrimmed(rreq.headers.xff.s, rout.s)
      ELSE rout = PeerOrAbsent(rreq)

\* C10, amended: when x-forwarded-for is present and is a non-empty string,
\* getClientIp returns its first comma-separated entry, trimmed; in every
\* other case, an empty header included, it returns the peer address, or the
\* absence value when there is none.
C10_NonEmptyStringHeaderWins ==
  (rout # NotResolved) =>
    IF rreq.headers.xff.t = "string" /\ rreq.headers.xff.s # <<>>
      THEN rout.t = "string" /\ IsFirstEntryTrimmed(rreq.headers.xff.s, rout.s)
      ELSE rout = PeerOrAbsent(rreq)

\* The header "1 ," has been resolved to "1".
C10_Witness ==
  /\ rreq.headers.xff = HStr(<<"1", " ", ",">>)
  /\ rout = HStr(<<"1">>)

(***************************************************************************)
(* C11.  The four tracking tables are append-only.                         *)
(***************************************************************************)
IsPrefix(old, new) == Len(old) <= Len(new) /\ old = SubSeq(new, 1, Len(old))

TrackingTables == <<consent_logs, device_locations, call_logs, ip_locations>>

\* A step of GET /admin/users or of GET /health.
ReadStep ==
  \/ admin' # admin
  \/ last' # last /\ last'.ep \in {"admin", "health"}

\* C11: in every step, each of consent_logs, device_locations, call_logs
\* and ip_locations keeps the rows it had, unmodified and at their places
\* (the step reads the table or appends to it), and a step of
\* GET /admin/users or GET /health changes no table at all.
C11_TrackingTablesAppendOnly ==
  [][/\ \A k \in 1..4 : IsPrefix(TrackingTables[k], TrackingTables'[k])
     /\ ReadStep => tables' = tables]_vars

\* A second insert has acted on a table that held a row.
C11_Witness == Len(call_logs) >= 2 /\ last.ep = "report-calls" /\ last.status = 200

(***************************************************************************)
(* C12.  No tracking row without a user.                                   *)
(***************************************************************************)
HasUserId(row) == row.user_id \notin {Undef, Null, Str("")}

\* C12: in every reachable state, every row of consent_logs,
\* device_locations, call_logs and ip_locations carries a user_id that is
\* present (neither undefined nor null) and not the empty string.
C12_EveryRowHasUserId ==
  \A k \in 1..4 : \A i \in 1..Len(TrackingTables[k]) : HasUserId(TrackingTables[k][i])

\* Rows were written while requests without a user_id were refused.
C12_Witness ==
  /\ Len(consent_logs) >= 1
  /\ last.ep \in {"consent", "report-location", "report-calls", "report-ip"}
  /\ last.status = 400
  /\ ~HasUserId(last.body)

(***************************************************************************)
(* C13.  The page of users and each user's recent calls.                   *)
(***************************************************************************)
Smaller(a, b) == IF a < b THEN a ELSE b

Dated(row) == row.started_at # Null

\* The users of the response are the UsersLimit most recently registered
\* ones of the table the query saw, most recent first.
PageIsMostRecentUsers(R, U) ==
  /\ Len(R) = Smaller(Len(U), UsersLimit)
  /\ \A k \in 1..Len(R) : \E i \in 1..Len(U) : U[i] = R[k].user
  /\ \A j, k \in 1..Len(R) : j # k => R[j].user.id # R[k].user.id
  /\ \A j, k \in 1..Len(R) : j < k => R[j].user.created_at >= R[k].user.created_at
  /\ \A i \in 1..Len(U) :
       (\A k \in 1..Len(R) : R[k].user.id # U[i].id)
         => \A k \in 1..Len(R) : R[k].user.created_at >= U[i].created_at

\* calls holds the CallsLimit rows of the user with the most recent
\* started_at, most recent first, of the table T the query saw.
CallsAreMostRecent(calls, T, uid) ==
  LET mine == RowsOfUser(T, uid) IN
  /\ Len(calls) = Smaller(Cardinality(mine), CallsLimit)
  /\ \A k \in 1..Len(calls) : \E i \in mine : T[i] = calls[k]
  /\ \A j, k \in 1..Len(calls) :
       j < k /\ Dated(calls[j]) /\ Dated(calls[k])
         => StartKey(calls[j]) >= StartKey(calls[k])
  /\ \A i \in mine :
       (Dated(T[i]) /\ \A k \in 1..Len(calls) : calls[k] # T[i])
         => \A k \in 1..Len(calls) :
              Dated(calls[k]) /\ StartKey(calls[k]) >= StartKey(T[i])

\* C13: every ok:true response of GET /admin/users has at most 200 users,
\* the most recently registered ones in descending created_at order, and
\* for each of them at most 10 calls rows: the user's call_logs rows with the
\* most recent started_at, in descending started_at order.
C13_PageAndRecentCalls ==
  (last.ep = "admin" /\ last.status = 200) =>
    /\ Len(last.data.results) <= UsersLimit
    /\ PageIsMostRecentUsers(last.data.results, last.data.seen_users)
    /\ \A k \in 1..Len(last.data.results) :
         LET e == last.data.results[k] IN
         /\ Len(e.calls) <= CallsLimit
         /\ CallsAreMostRecent(e.calls, e.seen_calls, e.user.id)

(***************************************************************************)
(* C14.  /report-ip with the geo fields missing.                           *)
(***************************************************************************)
GeoColumns ==
  {<<"city", "city">>, <<"region", "region">>, <<"country", "country">>,
   <<"loc", "loc">>, <<"org", "provider">>}

NullWhereAbsent(geo, row) == \A c \in GeoColumns : geo[c[1]] = Undef => row[c[2]] = Null

\* The last response answers a /report-ip request that had a user_id, found
\* the token configured, and got an answer from the provider.
LookupSucceeded ==
  /\ last.ep = "report-ip"
  /\ last.status # 400
  /\ last.error \notin {"IPINFO_TOKEN non configure", "fetch failed"}

IpRowWritten ==
  /\ last.status = 200
  /\ Len(ip_locations) = last.before + 1
  /\ NullWhereAbsent(last.data.geo, ip_locations[last.before + 1])

IpRowsBuiltWithNulls ==
  \A i \in PendingOf("report-ip") :
    pending[i].op = "insert" =>
      Len(pending[i].rows) = 1 /\ NullWhereAbsent(pending[i].geo, pending[i].rows[1])

\* C14 as stated: every /report-ip request with a user_id and a configured
\* token whose lookup succeeded builds one row with null in the column of
\* each absent geo field, writes exactly that one row to ip_locations, and is
\* answered ok:true.
C14_SuccessfulLookupWritesOneRow ==
  IpRowsBuiltWithNulls /\ (LookupSucceeded => IpRowWritten)

\* C14, amended: the same for the requests whose insert the store accepts.
C14_AcceptedLookupWritesOneRow ==
  IpRowsBuiltWithNulls /\ (LookupSucceeded /\ ~last.rejected => IpRowWritten)

\* The provider answered with no geo field at all, and the row was written
\* with five nulls.
C14_Witness ==
  /\ LookupSucceeded /\ last.status = 200
  /\ last.data.geo = GeoEmpty
  /\ Len(ip_locations) = last.before + 1
  /\ \A c \in GeoColumns : ip_locations[last.before + 1][c[2]] = Null

(***************************************************************************)
(* C15.  Optional fields of /report-calls and /report-location.            *)
(***************************************************************************)
\* stored is the submitted value x, or null when x is absent.
Retained(x, stored) == stored = (IF x \in {Undef, Null} THEN Null ELSE x)

RetainedAsDate(x, stored) == stored = (IF x \in {Undef, Null} THEN Null ELSE ToDate(x))

\* C15: in every row built by /report-calls, number is the submitted number,
\* and direction, started_at and duration_seconds hold the submitted value
\* when the element carries one and null only when it does not; likewise
\* accuracy in the row built by /report-location.
C15_OptionalFieldsRetained ==
  /\ \A i \in PendingOf("report-calls") :
       \A k \in 1..Len(pending[i].rows) :
         LET c == pending[i].body.calls.a[k]
             r == pending[i].rows[k]
         IN /\ r.number = c.number
            /\ Retained(c.direction, r.direction)
            /\ RetainedAsDate(c.started_at, r.started_at)
            /\ Retained(c.duration_seconds, r.duration_seconds)
  /\ \A i \in PendingOf("report-location") :
       Retained(pending[i].body.accuracy, pending[i].rows[1].accuracy)

(***************************************************************************)
(* C16.  One write attempt per request; /report-calls is all-or-nothing.   *)
(***************************************************************************)
PostEndpoints == {"users", "consent", "report-location", "report-calls", "report-ip"}

\* A step in which a store write took effect or was rejected.
WriteAttempt ==
  \/ tables' # tables
  \/ last'.seq # last.seq /\ last'.rejected /\ last'.ep \in PostEndpoints

\* The step ends the request that issued the write: the request leaves the
\* suspended ones and its response is sent, so it can issue no second write.
RequestEnds ==
  /\ last'.seq = last.seq + 1
  /\ \E i \in 1..Len(pending) :
       /\ pending[i].op \in {"insert", "update"}
       /\ pending' = Remove(pending, i)
       /\ last'.ep = pending[i].ep
       /\ last'.body = pending[i].body

\* After a /report-calls request with a batch: all rows of the batch were
\* added and the response is ok:true, or none was and the status is one of codes.
BatchAllOrNothing(codes) ==
  (last.ep = "report-calls" /\ last.body.calls.t = "array") =>
    \/ /\ last.status = 200 /\ last.ok
       /\ Len(AddedCalls) = Len(last.body.calls.a)
       /\ \A k \in 1..Len(AddedCalls) : AddedCalls[k].number = last.body.calls.a[k].number
    \/ /\ last.status \in codes /\ ~last.ok
       /\ AddedCalls = <<>>

\* C16 as stated, the all-or-nothing part: after a /report-calls request
\* either all N rows of the batch are in call_logs and the response is
\* ok:true, or none is and the response is HTTP 500.
C16_BatchAllOr500 == BatchAllOrNothing({500})

\* C16, amended: every store write, accepted or rejected, ends its request
\* in the same step (one attempt, no retry), and after a /report-calls
\* request either all N rows of the batch are in call_logs and the response
\* is ok:true, or none is and the response is HTTP 500, or HTTP 400 when
\* validation refused the request.
C16_OneAttemptAllOrNothing ==
  [](BatchAllOrNothing({400, 500})) /\ [][WriteAttempt => RequestEnds]_vars

\* A batch of two rows was written whole, and a batch was rejected whole.
C16_Witness ==
  /\ last.ep = "report-calls" /\ last.rejected
  /\ Len(last.body.calls.a) = 2
  /\ Len(call_logs) = 2

(***************************************************************************)
(* C17.  The per-user queries of GET /admin/users.                         *)
(***************************************************************************)
OnePerSignal == [device_locations |-> 1, ip_locations |-> 1, call_logs |-> 1]

\* C17: during a GET /admin/users request no user of the page is queried
\* more than once per table, and when the user's entry is pushed exactly one
\* query each has gone to device_locations, ip_locations and call_logs, the
\* single ip_locations query being the one whose result is last_ip.
C17_OneQueryPerSignal ==
  /\ admin.pc # "idle" =>
       \A t \in DOMAIN OnePerSignal : admin.queries[t] <= OnePerSignal[t]
  /\ (last.ep = "admin" /\ last.status = 200) =>
       \A k \in 1..Len(last.data.results) : last.data.results[k].queries = OnePerSignal

(***************************************************************************)
(* C18.  POST /users with an id that matches no user.                      *)
(***************************************************************************)
MatchesNoUser(id) == \A i \in 1..Len(users) : ~(id.t = "string" /\ users[i].id = id.v)

\* A step that answers a POST /users request bearing an id that matches no
\* row of users.
UnmatchedUpdateAnswered ==
  /\ last'.seq # last.seq
  /\ last'.ep = "users"
  /\ Truthy(last'.body.id)
  /\ MatchesNoUser(last'.body.id)

SilentNoOp == users' = users /\ last'.ok /\ last'.status = 200 /\ last'.data.id = last'.body.id

\* C18 as stated: a POST /users request whose id matches no stored user
\* inserts no row, changes no row, and is answered ok:true with that id.
C18_UnmatchedIdIsSilentNoOp == [][UnmatchedUpdateAnswered => SilentNoOp]_vars

\* C18, amended: such a request never inserts or changes a row, and when
\* the store accepts the update it is answered ok:true with that id.
C18_UnmatchedIdChangesNothing ==
  [][UnmatchedUpdateAnswered =>
       /\ users' = users
       /\ ~last'.rejected => SilentNoOp]_vars

\* An update for an unknown id was answered ok:true while users held a row.
C18_Witness ==
  /\ last.ep = "users" /\ last.body.id = Str("ghost") /\ last.status = 200
  /\ users # <<>> /\ MatchesNoUser(last.body.id)

(***************************************************************************)
(* C19.  Entries of GET /admin/users under concurrent writes.              *)
(***************************************************************************)
\* The entries pushed so far by the request in progress, and those of the
\* last ok:true response.
PushedEntries ==
  (IF admin.pc # "idle" THEN {admin.results[k] : k \in 1..Len(admin.results)} ELSE {})
  \cup (IF last.ep = "admin" /\ last.status = 200
          THEN {last.data.results[k] : k \in 1..Len(last.data.results)} ELSE {})

OwnRowOf(row, e, seen) ==
  /\ row.user_id = Str(e.user.id)
  /\ \E i \in 1..Len(seen) : seen[i] = row

\* C19: in every entry of GET /admin/users, whatever writes ran during the
\* request, last_location, last_ip and every row of calls carry the user_id
\* of the entry's own user, and each is a row that was in its table when
\* the table was queried.
C19_EntriesHoldOwnRows ==
  \A e \in PushedEntries :
    /\ e.last_location # Null => OwnRowOf(e.last_location, e, e.seen_locations)
    /\ e.last_ip # Null => OwnRowOf(e.last_ip, e, e.seen_ips)
    /\ \A k \in 1..Len(e.calls) : OwnRowOf(e.calls[k], e, e.seen_calls)

\* A response for two users, the first with a location, an ip and calls,
\* sent after a write that ran during the request.
C19_Witness ==
  /\ last.ep = "admin" /\ last.status = 200 /\ last.seq = 2
  /\ Len(last.data.results) = 2
  /\ last.data.results[1].last_location # Null
  /\ last.data.results[1].last_ip # Null
  /\ Len(last.data.results[1].calls) = 3
  /\ last.data.results[2].calls = <<>>

(***************************************************************************)
(* C20.  One response per ingestion request, ok:true only after the        *)
(* store's acknowledgement.                                                *)
(***************************************************************************)
IngestionEndpoints == {"consent", "report-location", "report-calls", "report-ip"}

TableOf(ep) ==
  CASE ep = "consent" -> consent_logs
    [] ep = "report-location" -> device_locations
    [] ep = "report-calls" -> call_logs
    [] ep = "report-ip" -> ip_locations

\* The rows the last request added to its table.
AddedRows == SubSeq(TableOf(last.ep), last.before + 1, Len(TableOf(last.ep)))

RowsExpected == IF last.ep = "report-calls" THEN Len(last.body.calls.a) ELSE 1

\* Every request sent has been answered once or is still suspended at an
\* await, where its pending call can settle.
AnsweredOnce ==
  /\ last.seq + Len(pending) + (IF admin.pc = "idle" THEN 0 ELSE 1) = nreq
  /\ pending # <<>> => ENABLED Settle

\* A 200 response stands on the request's rows being in the store, a 400 or
\* 500 response on the request having added none.
ResponseMatchesStore ==
  last.ep \in IngestionEndpoints =>
    /\ last.status \in {200, 400, 500}
    /\ last.ok <=> last.status = 200
    /\ last.status = 200 =>
         /\ ~last.rejected
         /\ Len(AddedRows) = RowsExpected
         /\ \A k \in 1..Len(AddedRows) : AddedRows[k].user_id = last.body.user_id
    /\ last.status \in {400, 500} => AddedRows = <<>>

\* The step appends rows to the table of endpoint ep.
GrewBy(ep, rows) ==
  CASE ep = "consent" -> Len(consent_logs') = Len(consent_logs) + Len(rows)
    [] ep = "report-location" -> Len(device_locations') = Len(device_locations) + Len(rows)
    [] ep = "report-calls" -> Len(call_logs') = Len(call_logs) + Len(rows)
    [] ep = "report-ip" -> Len(ip_locations') = Len(ip_locations) + Len(rows)

\* The step that sends ok:true is the step in which the store accepts the
\* insert of that request.
OkFollowsInsert ==
  (last'.seq # last.seq /\ last'.ep \in IngestionEndpoints /\ last'.ok) =>
    \E i \in PendingOf(last'.ep) :
      /\ pending[i].op = "insert"
      /\ pending[i].body = last'.body
      /\ pending' = Remove(pending, i)
      /\ GrewBy(last'.ep, pending[i].rows)

\* C20: every request to /consent, /report-location, /report-calls and
\* /report-ip is answered exactly once; ok:true is sent only in the step in
\* which the store accepts the insert, so a 200 response implies the rows of
\* the request are in the store, and a 400 or 500 response implies the
\* request added no row.
C20_OneResponseAfterStore ==
  [](AnsweredOnce /\ ResponseMatchesStore) /\ [][OkFollowsInsert]_vars

\* Both outcomes have occurred: a request answered 500 after the store
\* rejected its insert, following one answered ok:true with its row stored.
C20_Witness ==
  /\ last.ep \in IngestionEndpoints /\ last.rejected /\ last.status = 500
  /\ last.seq = 2 /\ nreq = 2 /\ pending = <<>>
  /\ Len(TableOf(last.ep)) = 1

====
